---- MODULE Spec2Model ----
(***************************************************************************)
(* ShortbusClient (examples/client.py): a pipe-mode client that            *)
(* multiplexes correlated command responses and unsolicited topic pushes   *)
(* over one line-delimited JSON stream.  Caller threads run the facade     *)
(* operations, one daemon thread runs _read_responses.  The class holds    *)
(* no lock, so every attribute read and write of a method is a step of     *)
(* its own and the threads interleave between them.                        *)
(***************************************************************************)
EXTENDS Integers, Sequences, FiniteSets, TLC

\* ---- bounds of the model ----
NumCallers == 2
NumTopics == 2
\* calls made in a run, by all callers together
MaxCalls == 2
\* largest request_id the broker answers with
MaxRespId == 1

Callers == 1..NumCallers
\* The reader thread runs the handlers (line 72); a handler that calls publish
\* makes the reader thread a caller of the facade too.
Dispatcher == 0
Threads == Callers \cup {Dispatcher}
Topics == 1..NumTopics
\* A call is named by its number; the handler a subscribe call passes is named
\* by that call.
\* List objects alive at once: one per topic, one per caller holding a
\* reference, one held by the dispatcher's iterator.
ListIds == 1..(NumTopics + NumCallers + 1)
NoList == 0
\* request_id None / absent
Null == 0

\* A decoded record: its "type", "topic", "request_id" and "status" keys ("none",
\* Null: the key is absent).  NoData is the empty dict of `result = {}`.
Record(ty, t, i, s) == [type |-> ty, topic |-> t, request_id |-> i, status |-> s]
NoData == Record("none", Null, Null, "none")
\* Lines that do not decode to a record: nothing read yet, a line empty after
\* strip(), a line json.loads rejects, a line that decodes to a list or a number.
NoLine == Record("<start>", Null, Null, "none")
BlankLine == Record("<blank>", Null, Null, "none")
MalformedLine == Record("<malformed>", Null, Null, "none")
NonRecordLine == Record("<nonrecord>", Null, Null, "none")

\* Records the broker may put on the stream.
PushMessages == {Record("message", t, Null, "none") : t \in Topics}
Responses ==
    {Record("none", Null, i, s) : i \in 0..MaxRespId, s \in {"ok", "error"}}
    \cup {Record("error", Null, Null, "error")}

VARIABLES
    request_id,        \* self.request_id
    callbacks,         \* self.callbacks: request id -> the call whose closure it holds
    message_handlers,  \* self.message_handlers: topic -> list object (NoList: key absent)
    lists,             \* the list objects: list id -> sequence of handlers
    running,           \* self.running
    stdinClosed,       \* self.process.stdin is closed
    rpc,               \* position of the reader thread
    line,              \* the reader's `line` / `data`: the last line read
    riter,             \* the list object the reader's for-loop iterates
    ridx,              \* index of that iterator
    invoked,           \* <<handler, raised>> for each call made for the current push
    calls,             \* calls started so far; a call is named by its number
    pc,                \* position of each thread inside the facade
    op,                \* operation each caller runs
    topic,             \* its topic argument
    call,              \* number of the call it is in (0: in none)
    tmp,               \* value of self.request_id loaded by `+= 1`
    cmdId,             \* command['request_id']
    ref,               \* list object loaded for .append
    result,            \* the call's `result` dict
    outcome            \* how the caller's last call ended

readerVars == <<rpc, line, riter, ridx, invoked>>
callerVars == <<calls, pc, op, topic, call, tmp, cmdId, ref, result, outcome>>
vars == <<request_id, callbacks, message_handlers, lists, running, stdinClosed,
          rpc, line, riter, ridx, invoked,
          calls, pc, op, topic, call, tmp, cmdId, ref, result, outcome>>

Range(s) == {s[i] : i \in 1..Len(s)}
\* The handlers called for the current push, in call order.
Called == [i \in 1..Len(invoked) |-> invoked[i][1]]

\* ---- list objects ----
\* A list object lives while something refers to it.
Live(mh, it, rf) == {mh[t] : t \in Topics} \cup {it} \cup {rf[c] : c \in Callers}
Collect(ls, mh, it, rf) == [l \in ListIds |-> IF l \in Live(mh, it, rf) THEN ls[l] ELSE <<>>]
\* `[]`: a fresh list object
NewList == CHOOSE l \in ListIds :
              /\ l \notin Live(message_handlers, riter, ref)
              /\ \A k \in ListIds : k \notin Live(message_handlers, riter, ref) => l <= k

\* __init__, lines 25-28; the reader thread stands before its first read.
Init ==
    /\ request_id = 0
    /\ callbacks = <<>>
    /\ message_handlers = [t \in Topics |-> NoList]
    /\ lists = [l \in ListIds |-> <<>>]
    /\ running = TRUE
    /\ stdinClosed = FALSE
    /\ rpc = "read"
    /\ line = NoLine
    /\ riter = NoList
    /\ ridx = 0
    /\ invoked = <<>>
    /\ calls = 0
    /\ pc = [c \in Threads |-> "idle"]
    /\ op = [c \in Threads |-> "none"]
    /\ topic = [c \in Threads |-> Null]
    /\ call = [c \in Threads |-> 0]
    /\ tmp = [c \in Threads |-> 0]
    /\ cmdId = [c \in Threads |-> 0]
    /\ ref = [c \in Threads |-> NoList]
    /\ result = [c \in Threads |-> NoData]
    /\ outcome = [c \in Threads |-> "none"]

\* ---- the reader thread: _read_responses and _handle_response ----

\* What the reader's last step printed to stderr (lines 50, 52, 85).
Logged ==
    CASE line = MalformedLine -> "Parse error"
      [] rpc \in {"fault", "crash"} -> "Reader error"
      [] rpc = "read" /\ line.type = "error" -> "Error"
      [] OTHER -> ""

\* `for line in self.process.stdout` ends: the finally clause runs.
ReadEOF ==
    /\ rpc = "read"
    /\ rpc' = "eof"
    /\ running' = FALSE
    /\ UNCHANGED <<request_id, callbacks, message_handlers, lists, stdinClosed,
                   line, riter, ridx, invoked>>
    /\ UNCHANGED callerVars

\* Reading the stream raises: `except Exception` prints, the finally clause runs.
ReadFault ==
    /\ rpc = "read"
    /\ rpc' = "fault"
    /\ running' = FALSE
    /\ UNCHANGED <<request_id, callbacks, message_handlers, lists, stdinClosed,
                   line, riter, ridx, invoked>>
    /\ UNCHANGED callerVars

\* A line that is empty after strip(): `continue`.
ReadBlank ==
    /\ rpc = "read"
    /\ line' = BlankLine
    /\ UNCHANGED <<request_id, callbacks, message_handlers, lists, running, stdinClosed,
                   rpc, riter, ridx, invoked>>
    /\ UNCHANGED callerVars

\* ReadMalformed with the bug of a json.loads outside the inner try: the
\* JSONDecodeError leaves the loop through `except Exception`.
ReadMalformedFatal ==
    /\ rpc = "read"
    /\ line' = MalformedLine
    /\ rpc' = "crash"
    /\ running' = FALSE
    /\ UNCHANGED <<request_id, callbacks, message_handlers, lists, stdinClosed,
                   riter, ridx, invoked>>
    /\ UNCHANGED callerVars

\* json.loads raises JSONDecodeError: printed, the loop goes on.
ReadMalformed ==
    /\ rpc = "read"
    /\ line' = MalformedLine
    /\ UNCHANGED <<request_id, callbacks, message_handlers, lists, running, stdinClosed,
                   rpc, riter, ridx, invoked>>
    /\ UNCHANGED callerVars

\* json.loads returns a list or a number: data.get raises AttributeError, which
\* only the outer `except Exception` catches; the loop is left.
ReadNonRecord ==
    /\ rpc = "read"
    /\ line' = NonRecordLine
    /\ rpc' = "crash"
    /\ running' = FALSE
    /\ UNCHANGED <<request_id, callbacks, message_handlers, lists, stdinClosed,
                   riter, ridx, invoked>>
    /\ UNCHANGED callerVars

\* callback(data) of the call n: result.update(response); event.set().  The
\* closure of a call that has ended fills a dict nobody reads.
Deliver(n, r) == [c \in Threads |-> IF call[c] = n THEN r ELSE result[c]]

\* Pop with the bug of a lookup that leaves the entry in the registry.
PopKeep(i) == callbacks

\* self.callbacks.pop(request_id)
Pop(i) == [k \in (DOMAIN callbacks) \ {i} |-> callbacks[k]]

\* A record whose type is not "message": lines 78-85.
HandleResponse(r) ==
    /\ rpc = "read"
    /\ line' = r
    /\ IF r.request_id # Null /\ r.request_id \in DOMAIN callbacks
       THEN /\ callbacks' = Pop(r.request_id)
            /\ result' = Deliver(callbacks[r.request_id], r)
       ELSE UNCHANGED <<callbacks, result>>
    /\ UNCHANGED <<request_id, message_handlers, lists, running, stdinClosed,
                   rpc, riter, ridx, invoked>>
    /\ UNCHANGED <<calls, pc, op, topic, call, tmp, cmdId, ref, outcome>>

\* A push: `if topic in self.message_handlers` (line 69).
HandleMessage(r) ==
    /\ rpc = "read"
    /\ line' = r
    /\ rpc' = IF message_handlers[r.topic] # NoList THEN "getlist" ELSE "read"
    /\ UNCHANGED <<request_id, callbacks, message_handlers, lists, running, stdinClosed,
                   riter, ridx, invoked>>
    /\ UNCHANGED callerVars

\* `self.message_handlers[topic]` and the start of the for-loop (line 70).  The
\* key may be gone by now: KeyError leaves the loop through `except Exception`.
GetList ==
    /\ rpc = "getlist"
    /\ IF message_handlers[line.topic] = NoList
       THEN /\ rpc' = "crash"
            /\ running' = FALSE
            /\ UNCHANGED <<riter, ridx>>
       ELSE /\ rpc' = "iter"
            /\ riter' = message_handlers[line.topic]
            /\ ridx' = 0
            /\ UNCHANGED running
    /\ UNCHANGED <<request_id, callbacks, message_handlers, lists, stdinClosed,
                   line, invoked>>
    /\ UNCHANGED callerVars

\* IterNext with the bug of a handler call outside any try: what the handler
\* raises leaves the read loop.
IterNextAbort ==
    /\ rpc = "iter"
    /\ ridx < Len(lists[riter])
    /\ \E raised \in BOOLEAN :
          /\ invoked' = Append(invoked, <<lists[riter][ridx + 1], raised>>)
          /\ rpc' = IF raised THEN "crash" ELSE "iter"
          /\ running' = IF raised THEN FALSE ELSE running
          /\ ridx' = IF raised THEN ridx ELSE ridx + 1
    /\ UNCHANGED <<request_id, callbacks, message_handlers, lists, stdinClosed, line, riter>>
    /\ UNCHANGED callerVars

\* IterNext with the bug of a loop that walks the list from its end.
IterNextBackwards ==
    /\ rpc = "iter"
    /\ ridx < Len(lists[riter])
    /\ ridx' = ridx + 1
    /\ \E raised \in BOOLEAN :
          invoked' = Append(invoked, <<lists[riter][Len(lists[riter]) - ridx], raised>>)
    /\ UNCHANGED <<request_id, callbacks, message_handlers, lists, running, stdinClosed,
                   rpc, line, riter>>
    /\ UNCHANGED callerVars

\* One turn of the for-loop: the next handler is called; it returns or raises,
\* and `except Exception` prints what it raised (lines 70-74).
IterNext ==
    /\ rpc = "iter"
    /\ ridx < Len(lists[riter])
    /\ ridx' = ridx + 1
    /\ \E raised \in BOOLEAN :
          invoked' = Append(invoked, <<lists[riter][ridx + 1], raised>>)
    /\ UNCHANGED <<request_id, callbacks, message_handlers, lists, running, stdinClosed,
                   rpc, line, riter>>
    /\ UNCHANGED callerVars

\* One turn of the for-loop whose handler calls publish (lines 72, 101): the
\* reader thread enters the facade and stays in the handler until the call ends.
HandlerPublish ==
    /\ rpc = "iter"
    /\ ridx < Len(lists[riter])
    /\ calls < MaxCalls
    /\ rpc' = "handler"
    /\ calls' = calls + 1
    /\ call' = [call EXCEPT ![Dispatcher] = calls + 1]
    /\ op' = [op EXCEPT ![Dispatcher] = "publish"]
    /\ pc' = [pc EXCEPT ![Dispatcher] = "load_id"]
    /\ UNCHANGED <<request_id, callbacks, message_handlers, lists, running, stdinClosed>>
    /\ UNCHANGED <<line, riter, ridx, invoked>>
    /\ UNCHANGED <<topic, tmp, cmdId, ref, result, outcome>>

\* The publish called by the handler has ended: the handler returns or raises,
\* and the for-loop goes on (lines 72-74).
HandlerReturn ==
    /\ rpc = "handler"
    /\ pc[Dispatcher] = "idle"
    /\ rpc' = "iter"
    /\ ridx' = ridx + 1
    /\ \E raised \in BOOLEAN :
          invoked' = Append(invoked, <<lists[riter][ridx + 1], raised>>)
    /\ outcome' = [outcome EXCEPT ![Dispatcher] = "none"]
    /\ UNCHANGED <<request_id, callbacks, message_handlers, lists, running, stdinClosed>>
    /\ UNCHANGED <<line, riter>>
    /\ UNCHANGED <<calls, pc, op, topic, call, tmp, cmdId, ref, result>>

\* The iterator is exhausted: `return` (line 75).
IterDone ==
    /\ rpc = "iter"
    /\ ridx >= Len(lists[riter])
    /\ rpc' = "read"
    /\ riter' = NoList
    /\ ridx' = 0
    /\ invoked' = <<>>
    /\ lists' = Collect(lists, message_handlers, NoList, ref)
    /\ UNCHANGED <<request_id, callbacks, message_handlers, running, stdinClosed, line>>
    /\ UNCHANGED callerVars

Reader ==
    \/ ReadEOF
    \/ ReadFault
    \/ ReadBlank
    \/ ReadMalformed
    \/ ReadNonRecord
    \/ \E r \in Responses : HandleResponse(r)
    \/ \E r \in PushMessages : HandleMessage(r)
    \/ GetList
    \/ IterNext
    \/ HandlerPublish
    \/ HandlerReturn
    \/ IterDone

\* ---- the caller threads: publish, subscribe, unsubscribe, ping, shutdown ----

\* How a call leaves the facade: it returns, or an exception reaches the
\* caller.  Its locals die with it.
Finish(c, how) ==
    /\ pc' = [pc EXCEPT ![c] = "idle"]
    /\ outcome' = [outcome EXCEPT ![c] = how]
    /\ op' = [op EXCEPT ![c] = "none"]
    /\ topic' = [topic EXCEPT ![c] = Null]
    /\ call' = [call EXCEPT ![c] = 0]
    /\ tmp' = [tmp EXCEPT ![c] = 0]
    /\ cmdId' = [cmdId EXCEPT ![c] = 0]
    /\ result' = [result EXCEPT ![c] = NoData]

\* A caller thread enters one of the five methods.
Start(c, o, t) ==
    /\ c \in Callers
    /\ pc[c] = "idle"
    /\ calls < MaxCalls
    /\ calls' = calls + 1
    /\ call' = [call EXCEPT ![c] = calls + 1]
    /\ op' = [op EXCEPT ![c] = o]
    /\ topic' = [topic EXCEPT ![c] = t]
    /\ outcome' = [outcome EXCEPT ![c] = "none"]
    /\ pc' = [pc EXCEPT ![c] = CASE o = "subscribe" -> "sub_check"
                                 [] o = "unsubscribe" -> "unsub_check"
                                 [] OTHER -> "load_id"]
    /\ UNCHANGED <<request_id, callbacks, message_handlers, lists, running, stdinClosed>>
    /\ UNCHANGED <<tmp, cmdId, ref, result>>
    /\ UNCHANGED readerVars

\* subscribe, line 130: `if topic not in self.message_handlers`
SubCheck(c) ==
    /\ pc[c] = "sub_check"
    /\ pc' = [pc EXCEPT ![c] = IF message_handlers[topic[c]] = NoList
                               THEN "sub_new" ELSE "sub_load"]
    /\ UNCHANGED <<request_id, callbacks, message_handlers, lists, running, stdinClosed>>
    /\ UNCHANGED <<calls, op, topic, call, tmp, cmdId, ref, result, outcome>>
    /\ UNCHANGED readerVars

\* subscribe, line 131: `self.message_handlers[topic] = []`
SubNew(c) ==
    /\ pc[c] = "sub_new"
    /\ message_handlers' = [message_handlers EXCEPT ![topic[c]] = NewList]
    /\ lists' = Collect([lists EXCEPT ![NewList] = <<>>], message_handlers', riter, ref)
    /\ pc' = [pc EXCEPT ![c] = "sub_load"]
    /\ UNCHANGED <<request_id, callbacks, running, stdinClosed>>
    /\ UNCHANGED <<calls, op, topic, call, tmp, cmdId, ref, result, outcome>>
    /\ UNCHANGED readerVars

\* subscribe, line 132: `self.message_handlers[topic]` is loaded; KeyError when
\* the key has been deleted since line 130.
SubLoad(c) ==
    /\ pc[c] = "sub_load"
    /\ IF message_handlers[topic[c]] = NoList
       THEN /\ Finish(c, "KeyError")
            /\ UNCHANGED ref
       ELSE /\ ref' = [ref EXCEPT ![c] = message_handlers[topic[c]]]
            /\ pc' = [pc EXCEPT ![c] = "sub_append"]
            /\ UNCHANGED <<op, topic, call, tmp, cmdId, result, outcome>>
    /\ UNCHANGED <<request_id, callbacks, message_handlers, lists, running, stdinClosed>>
    /\ UNCHANGED calls
    /\ UNCHANGED readerVars

\* SubAppend with the bug of a subscribe that sends its command without having
\* stored the handler.
SubAppendSkip(c) ==
    /\ pc[c] = "sub_append"
    /\ ref' = [ref EXCEPT ![c] = NoList]
    /\ lists' = Collect(lists, message_handlers, riter, ref')
    /\ pc' = [pc EXCEPT ![c] = "load_id"]
    /\ UNCHANGED <<request_id, callbacks, message_handlers, running, stdinClosed>>
    /\ UNCHANGED <<calls, op, topic, call, tmp, cmdId, result, outcome>>
    /\ UNCHANGED readerVars

\* subscribe, line 132: `.append(handler)` on the loaded list object
SubAppend(c) ==
    /\ pc[c] = "sub_append"
    /\ ref' = [ref EXCEPT ![c] = NoList]
    /\ lists' = Collect([lists EXCEPT ![ref[c]] = Append(@, call[c])], message_handlers, riter, ref')
    /\ pc' = [pc EXCEPT ![c] = "load_id"]
    /\ UNCHANGED <<request_id, callbacks, message_handlers, running, stdinClosed>>
    /\ UNCHANGED <<calls, op, topic, call, tmp, cmdId, result, outcome>>
    /\ UNCHANGED readerVars

\* unsubscribe, line 158: `if topic in self.message_handlers`
UnsubCheck(c) ==
    /\ pc[c] = "unsub_check"
    /\ pc' = [pc EXCEPT ![c] = IF message_handlers[topic[c]] # NoList
                               THEN "unsub_del" ELSE "load_id"]
    /\ UNCHANGED <<request_id, callbacks, message_handlers, lists, running, stdinClosed>>
    /\ UNCHANGED <<calls, op, topic, call, tmp, cmdId, ref, result, outcome>>
    /\ UNCHANGED readerVars

\* UnsubDel with the bug of an unsubscribe that leaves the handlers in place
\* until the broker acknowledges.
UnsubDelKeep(c) ==
    /\ pc[c] = "unsub_del"
    /\ pc' = [pc EXCEPT ![c] = "load_id"]
    /\ UNCHANGED <<request_id, callbacks, message_handlers, lists, running, stdinClosed>>
    /\ UNCHANGED <<calls, op, topic, call, tmp, cmdId, ref, result, outcome>>
    /\ UNCHANGED readerVars

\* unsubscribe, line 159: `del self.message_handlers[topic]`; KeyError when
\* another caller has deleted the key since line 158.
UnsubDel(c) ==
    /\ pc[c] = "unsub_del"
    /\ IF message_handlers[topic[c]] = NoList
       THEN /\ Finish(c, "KeyError")
            /\ UNCHANGED <<message_handlers, lists>>
       ELSE /\ message_handlers' = [message_handlers EXCEPT ![topic[c]] = NoList]
            /\ lists' = Collect(lists, message_handlers', riter, ref)
            /\ pc' = [pc EXCEPT ![c] = "load_id"]
            /\ UNCHANGED <<op, topic, call, tmp, cmdId, result, outcome>>
    /\ UNCHANGED <<request_id, callbacks, running, stdinClosed>>
    /\ UNCHANGED <<calls, ref>>
    /\ UNCHANGED readerVars

\* _send, line 89: `self.request_id += 1` loads the attribute ...
LoadId(c) ==
    /\ pc[c] = "load_id"
    /\ tmp' = [tmp EXCEPT ![c] = request_id]
    /\ pc' = [pc EXCEPT ![c] = "store_id"]
    /\ UNCHANGED <<request_id, callbacks, message_handlers, lists, running, stdinClosed>>
    /\ UNCHANGED <<calls, op, topic, call, cmdId, ref, result, outcome>>
    /\ UNCHANGED readerVars

\* ... and stores the sum; the loaded value is popped off the stack.
StoreId(c) ==
    /\ pc[c] = "store_id"
    /\ request_id' = tmp[c] + 1
    /\ tmp' = [tmp EXCEPT ![c] = 0]
    /\ pc' = [pc EXCEPT ![c] = "stamp"]
    /\ UNCHANGED <<callbacks, message_handlers, lists, running, stdinClosed>>
    /\ UNCHANGED <<calls, op, topic, call, cmdId, ref, result, outcome>>
    /\ UNCHANGED readerVars

\* _send, line 90: `command['request_id'] = self.request_id`
Stamp(c) ==
    /\ pc[c] = "stamp"
    /\ cmdId' = [cmdId EXCEPT ![c] = request_id]
    /\ pc' = [pc EXCEPT ![c] = IF op[c] = "shutdown" THEN "write" ELSE "register"]
    /\ UNCHANGED <<request_id, callbacks, message_handlers, lists, running, stdinClosed>>
    /\ UNCHANGED <<calls, op, topic, call, tmp, ref, result, outcome>>
    /\ UNCHANGED readerVars

\* _send, lines 92-93: `self.callbacks[self.request_id] = callback`
Register(c) ==
    /\ pc[c] = "register"
    /\ callbacks' = (request_id :> call[c]) @@ callbacks
    /\ pc' = [pc EXCEPT ![c] = "write"]
    /\ UNCHANGED <<request_id, message_handlers, lists, running, stdinClosed>>
    /\ UNCHANGED <<calls, op, topic, call, tmp, cmdId, ref, result, outcome>>
    /\ UNCHANGED readerVars

\* _send, lines 95-96: `self.process.stdin.write(line)`; on a closed stdin the
\* write raises ValueError.
Write(c) ==
    /\ pc[c] = "write"
    /\ IF stdinClosed
       THEN Finish(c, "ValueError")
       ELSE /\ pc' = [pc EXCEPT ![c] = "flush"]
            /\ UNCHANGED <<op, topic, call, tmp, cmdId, result, outcome>>
    /\ UNCHANGED <<request_id, callbacks, message_handlers, lists, running, stdinClosed>>
    /\ UNCHANGED <<calls, ref>>
    /\ UNCHANGED readerVars

\* _send, line 97: `self.process.stdin.flush()`, a call of its own after the
\* write; on a closed stdin it raises ValueError.
Flush(c) ==
    /\ pc[c] = "flush"
    /\ IF stdinClosed
       THEN Finish(c, "ValueError")
       ELSE /\ pc' = [pc EXCEPT ![c] = IF op[c] = "shutdown" THEN "close" ELSE "wait"]
            /\ UNCHANGED <<op, topic, call, tmp, cmdId, result, outcome>>
    /\ UNCHANGED <<request_id, callbacks, message_handlers, lists, running, stdinClosed>>
    /\ UNCHANGED <<calls, ref>>
    /\ UNCHANGED readerVars

\* shutdown, lines 197-198: stdin.close(); self.running = False
Close(c) ==
    /\ pc[c] = "close"
    /\ stdinClosed' = TRUE
    /\ running' = FALSE
    /\ Finish(c, "returned None")
    /\ UNCHANGED <<request_id, callbacks, message_handlers, lists>>
    /\ UNCHANGED <<calls, ref>>
    /\ UNCHANGED readerVars

\* event.wait ends because the callback set the event; the method then looks at
\* result: publish and subscribe raise on a status other than "ok".
WaitDone(c) ==
    /\ pc[c] = "wait"
    /\ result[c] # NoData
    /\ Finish(c, IF op[c] \in {"publish", "subscribe"} /\ result[c].status # "ok"
                 THEN "Exception" ELSE "returned result")
    /\ UNCHANGED <<request_id, callbacks, message_handlers, lists, running, stdinClosed>>
    /\ UNCHANGED <<calls, ref>>
    /\ UNCHANGED readerVars

\* WaitTimeout with the bug of an event.wait() without its timeout: the thread
\* stays blocked until the event is set.
WaitForever(c) ==
    /\ pc[c] = "wait"
    /\ result[c] = NoData
    /\ UNCHANGED vars

\* WaitTimeout with the bug of a subscribe that takes its handler out of the
\* topic's list again when the call fails.
WaitTimeoutRollback(c) ==
    /\ pc[c] = "wait"
    /\ result[c] = NoData
    /\ Finish(c, IF op[c] = "unsubscribe" THEN "returned {}" ELSE "TimeoutError")
    /\ lists' = IF op[c] = "subscribe" /\ message_handlers[topic[c]] # NoList
                THEN [lists EXCEPT ![message_handlers[topic[c]]] =
                         SelectSeq(@, LAMBDA h : h # call[c])]
                ELSE lists
    /\ UNCHANGED <<request_id, callbacks, message_handlers, running, stdinClosed>>
    /\ UNCHANGED <<calls, ref>>
    /\ UNCHANGED readerVars

\* event.wait(timeout=5.0) ends with result still empty: publish, subscribe and
\* ping raise TimeoutError, unsubscribe returns the empty dict.
WaitTimeout(c) ==
    /\ pc[c] = "wait"
    /\ result[c] = NoData
    /\ Finish(c, IF op[c] = "unsubscribe" THEN "returned {}" ELSE "TimeoutError")
    /\ UNCHANGED <<request_id, callbacks, message_handlers, lists, running, stdinClosed>>
    /\ UNCHANGED <<calls, ref>>
    /\ UNCHANGED readerVars

Caller(c) ==
    \/ \E o \in {"subscribe", "unsubscribe"}, t \in Topics : Start(c, o, t)
    \/ \E o \in {"publish", "ping", "shutdown"} : Start(c, o, Null)
    \/ SubCheck(c)
    \/ SubNew(c)
    \/ SubLoad(c)
    \/ SubAppend(c)
    \/ UnsubCheck(c)
    \/ UnsubDel(c)
    \/ LoadId(c)
    \/ StoreId(c)
    \/ Stamp(c)
    \/ Register(c)
    \/ Write(c)
    \/ Flush(c)
    \/ Close(c)
    \/ WaitDone(c)
    \/ WaitTimeout(c)

\* The steps of a thread that is inside the facade.
Progress(c) ==
    \/ SubCheck(c)
    \/ SubNew(c)
    \/ SubLoad(c)
    \/ SubAppend(c)
    \/ UnsubCheck(c)
    \/ UnsubDel(c)
    \/ LoadId(c)
    \/ StoreId(c)
    \/ Stamp(c)
    \/ Register(c)
    \/ Write(c)
    \/ Flush(c)
    \/ Close(c)
    \/ WaitDone(c)
    \/ WaitTimeout(c)

\* Any number of caller threads and the reader thread, which is inside the
\* facade itself while a handler it runs calls publish.
Next == Reader \/ \E c \in Threads : Caller(c)

Spec == Init /\ [][Next]_vars

\* One caller thread, making its calls one after the other, and the reader thread.
NextSolo == Reader \/ \E c \in {1, Dispatcher} : Caller(c)

SpecSolo == Init /\ [][NextSolo]_vars

\* SpecSolo with threads that keep running: a thread inside the facade takes
\* its next step, writes do not block for ever and the timer of event.wait
\* fires.  Nothing is assumed of the broker or of the read loop.
SpecSoloFair ==
    SpecSolo /\ WF_vars(Progress(1)) /\ WF_vars(Progress(Dispatcher))

\* ---- steps, as the properties below recognise them ----

\* Every action of the facade moves its thread; a step that moves none is the
\* read loop's.
ReaderStep == pc' = pc
\* The reader handles a response record (HandleResponse).
ResponseStep == ReaderStep /\ rpc = "read" /\ line' \in Responses /\ rpc' \notin {"eof", "fault"}
\* The reader handles a push record (HandleMessage).
MessageStep == ReaderStep /\ rpc = "read" /\ line' \in PushMessages /\ rpc' \notin {"eof", "fault"}
\* The reader's for-loop over a topic's handlers ends (IterDone).
DispatchEnd == rpc = "iter" /\ rpc' = "read"
\* The read loop has ended and its finally clause has run.
ReaderDead == rpc \in {"eof", "fault", "crash"}
\* The positions of a caller inside _send and in event.wait.
Pending(c) == pc[c] \in {"write", "flush", "wait"}

\* ---- request/response correlation ----

\* C1: each response is delivered to the waiter of the call whose command carries
\* its request_id: a caller's result is only ever filled with a response that
\* carries the request_id stamped on its own command, and a response that
\* arrives carrying the request_id of a call still waiting resolves that call.
C1_ResponseToIssuer ==
    [][\A c \in Callers :
          /\ (result'[c] # result[c] /\ result'[c] # NoData)
                => result'[c].request_id = cmdId[c]
          /\ (ResponseStep /\ pc[c] = "wait" /\ result[c] = NoData
                /\ line'.request_id = cmdId[c])
                => result'[c] = line']_vars

\* C2: request ids only grow, no two outstanding commands carry the same
\* request_id, and registering a waiter never replaces the registry entry of
\* another call that is still in progress.
C2_UniqueIds ==
    [][/\ request_id' >= request_id
       /\ \A c, d \in Callers :
             (c # d /\ cmdId'[c] # 0 /\ cmdId'[d] # 0) => cmdId'[c] # cmdId'[d]
       /\ \A i \in DOMAIN callbacks :
             (i \in DOMAIN callbacks' /\ callbacks'[i] # callbacks[i])
                => \A d \in Callers : call[d] # callbacks[i]]_vars

\* C3: a pending request is resolved at most once.  The first response for a
\* registered id removes that entry and fills the result of its call, which was
\* empty until then; a response whose request_id has no entry (unknown,
\* duplicate, null) leaves the registry and every result as they were; in both
\* cases the read loop goes on.
C3_ResolveOnce ==
    [][ResponseStep =>
          /\ rpc' = "read" /\ running' = running
          /\ IF line'.request_id \in DOMAIN callbacks
             THEN /\ callbacks' = [k \in (DOMAIN callbacks) \ {line'.request_id} |-> callbacks[k]]
                  /\ \A c \in Callers :
                        IF call[c] = callbacks[line'.request_id]
                        THEN result[c] = NoData /\ result'[c] = line'
                        ELSE result'[c] = result[c]
             ELSE callbacks' = callbacks /\ result' = result]_vars

\* C3's case: the response for a registered id has resolved the call that
\* waits for it, and the entry is gone from the registry.
C3_Witness ==
    \E c \in Callers :
        /\ pc[c] = "wait" /\ result[c] # NoData /\ result[c] = line
        /\ result[c].request_id = cmdId[c]
        /\ result[c].request_id \notin DOMAIN callbacks

\* C4: when a call ends because its wait timed out, the registry holds no entry
\* of that call afterwards.
C4_NoResidue ==
    [][\A c \in Callers :
          (pc[c] = "wait" /\ result[c] = NoData /\ pc'[c] = "idle") =>
              \A i \in DOMAIN callbacks' : callbacks'[i] # call[c]]_vars

\* C5: when the read loop observes the end of the stream or a read fault, every
\* call waiting for a response is completed at that point with ConnectionLost.
C5_ConnectionLost ==
    [][(rpc = "read" /\ rpc' \in {"eof", "fault"}) =>
          \A c \in Callers :
              (Pending(c) /\ result[c] = NoData) => result'[c].status = "ConnectionLost"]_vars

\* C6: a facade operation started after the read loop has marked the connection
\* dead ends at once with ConnectionLost: without an id, a waiter or a write.
C6_FailFast ==
    [][\A c \in Callers :
          (ReaderDead /\ pc[c] = "idle" /\ call'[c] # 0) =>
              /\ pc'[c] = "idle"
              /\ outcome'[c] = "ConnectionLost"]_vars

\* ---- subscriptions and dispatch ----

\* The last call of the for-loop raised.
HandlerRaised ==
    rpc \in {"iter", "handler"} /\ Len(invoked') = Len(invoked) + 1 /\ invoked'[Len(invoked')][2]

\* C7: a handler that raises is isolated.  The step in which it raises leaves
\* the reader inside the same for-loop, one handler further, with the
\* subscriptions as they were, so that a later push meets the same lists; and a
\* for-loop in which a handler raised still ends having called every handler
\* of the list.
C7_HandlerIsolation ==
    [][/\ HandlerRaised =>
             /\ rpc' = "iter" /\ riter' = riter /\ ridx' = ridx + 1
             /\ running' = running
             /\ message_handlers' = message_handlers /\ lists' = lists
       /\ (DispatchEnd /\ \E i \in 1..Len(invoked) : invoked[i][2])
             => Called = lists[riter]]_vars

\* C7's case: the first handler of a topic raised on a push and the second
\* handler has been called with it all the same.
C7_Witness ==
    /\ rpc = "iter"
    /\ Len(invoked) = 2
    /\ invoked[1][2]
    /\ invoked[2][1] # invoked[1][1]
    /\ lists[riter] = Called

\* C8: a push is dispatched to the list of its topic and to nothing else; the
\* for-loop calls the handlers of that list one by one in list order, once per
\* entry, and ends having called them all; a list only ever changes by a new
\* handler appended at its end, so list order is registration order; a push to
\* a topic without a list calls nothing.
C8_DispatchOrder ==
    [][/\ (rpc = "getlist" /\ rpc' = "iter")
             => riter' = message_handlers[line.topic] /\ invoked' = <<>> /\ ridx' = 0
       /\ rpc' = "iter" => Called' = SubSeq(lists'[riter'], 1, ridx')
       /\ DispatchEnd => Called = lists[riter]
       /\ (MessageStep /\ message_handlers[line'.topic] = NoList)
             => rpc' = "read" /\ invoked' = <<>>
       /\ \A t \in Topics : \A u \in Topics :
             (t # u /\ message_handlers'[t] # NoList) => message_handlers'[t] # message_handlers'[u]
       /\ \A l \in ListIds :
             (l \in Live(message_handlers', riter', ref') /\ lists'[l] # lists[l] /\ lists'[l] # <<>>)
                => /\ Len(lists'[l]) = Len(lists[l]) + 1
                   /\ SubSeq(lists'[l], 1, Len(lists[l])) = lists[l]]_vars

\* C8's case: two handlers registered one after the other for a topic have both
\* been called for a push, the first registered first.
C8_Witness ==
    /\ rpc = "iter"
    /\ line \in PushMessages
    /\ riter = message_handlers[line.topic]
    /\ lists[riter] = <<1, 2>>
    /\ Called = <<1, 2>>

C10_RegisterBeforeSend ==
    [][\A c \in Callers :
          (op'[c] = "subscribe" /\ pc'[c] = "wait") =>
              /\ message_handlers'[topic'[c]] # NoList
              /\ call'[c] \in Range(lists'[message_handlers'[topic'[c]]])
              /\ (rpc = "getlist" /\ rpc' = "iter" /\ line.topic = topic[c])
                    => call[c] \in Range(lists'[riter'])
              /\ (DispatchEnd /\ pc[c] = "wait" /\ riter = message_handlers[topic[c]])
                    => call[c] \in Range(Called)]_vars

\* C10's case: while the subscribe call waits for its response, a push for its
\* topic is being dispatched and the handler it registered has been called.
C10_Witness ==
    \E c \in Callers :
        /\ op[c] = "subscribe" /\ pc[c] = "wait"
        /\ rpc = "iter" /\ line.topic = topic[c]
        /\ call[c] \in Range(Called)

\* ---- how a blocking call ends ----

\* The step in which event.wait has ended and the method leaves the facade.
WaitEnds(c) == pc[c] = "wait" /\ pc'[c] = "idle"

\* C11: for publish, subscribe, unsubscribe and ping alike, a call resolved
\* with a response whose status is not "ok" fails with the operation's error,
\* and a call resolved with status "ok" returns the response.
C11_StatusDecides ==
    [][\A c \in Callers :
          (WaitEnds(c) /\ result[c] # NoData) =>
              outcome'[c] = IF result[c].status = "ok" THEN "returned result" ELSE "Exception"]_vars

\* C12: for publish, subscribe, unsubscribe and ping alike, a call whose wait
\* ends without a response fails with a timeout error; none returns a value.
C12_TimeoutFails ==
    [][\A c \in Callers :
          (WaitEnds(c) /\ result[c] = NoData) => outcome'[c] = "TimeoutError"]_vars

\* ---- shutdown and the write path ----

\* C13: shutdown registers no waiter and does not wait, and closes stdin; once
\* it has returned, no step of a later call of the caller allocates a request
\* id, adds a registry entry, touches the subscriptions or writes a line.
C13_ShutdownRejects ==
    [][\A c \in Callers :
          /\ (op[c] = "shutdown" /\ pc'[c] # pc[c]) =>
                /\ callbacks' = callbacks
                /\ pc'[c] \notin {"register", "wait"}
                /\ pc'[c] = "idle" => (stdinClosed' /\ ~running')
          /\ (stdinClosed /\ pc'[c] # pc[c]) =>
                /\ request_id' = request_id
                /\ callbacks' = callbacks
                /\ message_handlers' = message_handlers
                /\ pc'[c] # "flush"]_vars

\* The thread has called stdin.write for its line and has not yet returned
\* from stdin.flush (lines 96-97).
InWritePath(c) == pc[c] = "flush"

\* C14: at most one thread is inside the write path at any time.
C14_WriteExclusion ==
    \A c, d \in Threads : (c # d /\ InWritePath(c)) => ~InWritePath(d)

\* ---- bad input on the stream ----

\* The reader reads a line that json.loads rejects (ReadMalformed).
MalformedStep ==
    ReaderStep /\ rpc = "read" /\ line' = MalformedLine /\ rpc' \notin {"eof", "fault"}

\* C15: a line that fails JSON decoding is logged and skipped: the read loop
\* stays at the stream and nothing of the client changes; and a response that
\* comes right after it and carries a registered request_id removes the entry
\* and fills the result of the call that waits for it.
C15_MalformedSkipped ==
    [][/\ MalformedStep =>
             /\ rpc' = "read" /\ running' = running
             /\ Logged' = "Parse error"
             /\ callbacks' = callbacks /\ result' = result
             /\ message_handlers' = message_handlers /\ lists' = lists
       /\ (line = MalformedLine /\ ResponseStep /\ line'.request_id \in DOMAIN callbacks)
             => /\ line'.request_id \notin DOMAIN callbacks'
                /\ \A c \in Threads :
                      call[c] = callbacks[line'.request_id] => result'[c] = line']_vars

\* C15's case: a malformed line has been read and logged, the read loop is back
\* at the stream, and a call still waits for the response that carries its
\* registered request_id.
C15_Witness ==
    /\ line = MalformedLine /\ rpc = "read" /\ Logged = "Parse error"
    /\ \E c \in Callers :
          /\ pc[c] = "wait" /\ result[c] = NoData
          /\ cmdId[c] \in DOMAIN callbacks /\ callbacks[cmdId[c]] = call[c]
          /\ cmdId[c] <= MaxRespId

\* C16: the read loop ends only when the stream ends or reading it faults; no
\* content of a line ends it.
C16_OnlyStreamEndStops ==
    [][(~ReaderDead /\ ReaderDead') => rpc' \in {"eof", "fault"}]_vars

\* ---- a handler that calls the facade ----

\* The reader thread is inside a handler's call and reads nothing.
ReaderInHandler == rpc = "handler"

\* C17: while a request issued by a handler waits for its response, the read
\* loop is not held by that handler: it can read the response, and the request
\* does not end by timeout with the reader held.
C17_NoReentrancyHazard ==
    [][/\ pc'[Dispatcher] = "wait" => ~ReaderInHandler'
       /\ (WaitEnds(Dispatcher) /\ result[Dispatcher] = NoData) => ~ReaderInHandler]_vars

\* ---- concurrent registration ----

\* The subscribe call has passed lines 130-132.
Registered(c) ==
    /\ op[c] = "subscribe"
    /\ pc[c] \in {"load_id", "store_id", "stamp", "register", "write", "flush", "wait"}

\* C18: when callers that subscribe to the same topic have all passed the
\* registration step, the topic's list holds every one of their handlers; and
\* no subscribe ends during registration with an error.
C18_NoLostHandler ==
    [][\A c \in Callers :
          /\ \A d \in Callers :
                (Registered(c)' /\ Registered(d)' /\ topic'[c] = topic'[d]) =>
                    /\ message_handlers'[topic'[c]] # NoList
                    /\ {call'[c], call'[d]} \subseteq Range(lists'[message_handlers'[topic'[c]]])
          /\ (op[c] = "subscribe" /\ pc[c] \in {"sub_check", "sub_new", "sub_load", "sub_append"})
                => pc'[c] # "idle"]_vars

\* ---- termination of the blocking calls ----

\* C19: every call that has entered the facade leaves it again, whatever the
\* broker sends or does not send.
C19_CallsEnd ==
    \A c \in Threads : (pc[c] # "idle") ~> (pc[c] = "idle")

\* C19's case: the stream has ended, and a call that waited for a response
\* which never came has ended with its timeout.
C19_Witness ==
    /\ rpc = "eof"
    /\ \E c \in Callers : pc[c] = "idle" /\ outcome[c] = "TimeoutError"

\* ---- a subscribe that fails ----

\* The step in which subscribe raises TimeoutError or the broker's error.
SubscribeFails(c) ==
    /\ op[c] = "subscribe" /\ WaitEnds(c)
    /\ outcome'[c] \in {"TimeoutError", "Exception"}

\* C20: the step in which subscribe fails leaves the subscriptions as they
\* are, with the handler in the list of its topic; a handler leaves the list
\* of its topic only by an unsubscribe of that topic deleting the list; and
\* every push is dispatched to the list of its topic and calls all of it.
C20_NoRollback ==
    [][/\ \A c \in Callers :
             SubscribeFails(c) =>
                 /\ message_handlers' = message_handlers
                 /\ message_handlers'[topic[c]] # NoList
                 /\ call[c] \in Range(lists'[message_handlers'[topic[c]]])
       /\ \A t \in Topics :
             message_handlers[t] # NoList =>
                 \/ /\ message_handlers'[t] = message_handlers[t]
                    /\ SubSeq(lists'[message_handlers[t]], 1, Len(lists[message_handlers[t]]))
                          = lists[message_handlers[t]]
                 \/ /\ message_handlers'[t] = NoList
                    /\ \E c \in Callers :
                          op[c] = "unsubscribe" /\ topic[c] = t /\ pc[c] = "unsub_del"
       /\ (rpc = "getlist" /\ rpc' = "iter") => riter' = message_handlers[line.topic]
       /\ DispatchEnd => Called = lists[riter]]_vars

\* C20's case: the only call made was a subscribe, it has failed, and the
\* handler it registered has been called for a push that came afterwards.
C20_Witness ==
    /\ calls = 1
    /\ \E c \in Callers : pc[c] = "idle" /\ outcome[c] \in {"TimeoutError", "Exception"}
    /\ rpc = "iter" /\ line \in PushMessages
    /\ riter = message_handlers[line.topic]
    /\ Called = <<1>>

====
